---- MODULE Spec2Model ----
(***************************************************************************)
(* Ship-placement board of the battleship setup screen (component Game):   *)
(* the fleet held in the React state shipPieces, the placement validator   *)
(* canPlaceShipAt, the commit placeShip, the breadth-first rotation search *)
(* rotateShip, and the drag and click handlers that drive them; the drag    *)
(* modifier snapToGrid; and the WebSocket relay of the custom server.      *)
(***************************************************************************)
EXTENDS Integers, Sequences, FiniteSets, TLC

\* ------------------------------------------------------------------ bounds
\* Only the first MaxShips ships of the fleet are dragged.
MaxShips == 2
\* A behaviour holds at most MaxMoves drops over a cell and rotate clicks.
MaxMoves == 4
\* Board cells the pointer is released over: the corner cells that make a
\* carrier stick out of the board, the cells of the overlap scenarios, and a
\* cell from which a carrier sticks out while its centre stays on the board.
DropCells == { <<0, 0>>, <<0, 3>>, <<1, 0>>, <<2, 0>>, <<9, 0>>, <<0, 9>>, <<2, 6>> }
\* The relay serves at most MaxSockets sockets and receives at most MaxFrames
\* frames in a behaviour.
MaxSockets == 2
MaxFrames == 2

\* --------------------------------------------------------------- constants
\* The board is 10 x 10: the literal 10 of canPlaceShipAt and rotateShip.
SIZE == 10

\* Side of a board cell in pixels.
gridSize == 44

\* defaultShips, without the display-only colour.
defaultShips ==
  << [name |-> "Carrier",    size |-> 5, position |-> <<>>, horizontal |-> TRUE],
     [name |-> "Battleship", size |-> 4, position |-> <<>>, horizontal |-> TRUE],
     [name |-> "Cruiser",    size |-> 3, position |-> <<>>, horizontal |-> TRUE],
     [name |-> "Submarine",  size |-> 3, position |-> <<>>, horizontal |-> TRUE],
     [name |-> "Destroyer",  size |-> 2, position |-> <<>>, horizontal |-> TRUE] >>

\* The value null of activeDrag and of selectedShip.
NullName == "null"
NullItem == [name |-> NullName, size |-> 0, horizontal |-> FALSE]

VARIABLES
  shipPieces,    \* useState(defaultShips): the fleet, in array order
  activeDrag,    \* useState(null): descriptor of the ship being dragged
  selectedShip,  \* useState(null): name of the selected ship
  lastOp,        \* the handler that ran last, its arguments and its outcome
  moves,         \* drops over a cell and rotate clicks so far
  snap,          \* the last call of the modifier snapToGrid and its result
  relay,         \* the relay server: its sockets and the frames it sent
  loop           \* a rotateShip call under way: its queue and visited set

vars == <<shipPieces, activeDrag, selectedShip, lastOp, moves, snap, relay, loop>>

\* ----------------------------------------------------------------- helpers
Indices == 1..Len(defaultShips)

\* shipPieces.find((s) => s.name === name): index of the ship, 0 if none.
find(pieces, name) ==
  IF \E k \in 1..Len(pieces) : pieces[k].name = name
    THEN CHOOSE k \in 1..Len(pieces) :
           /\ pieces[k].name = name
           /\ \A j \in 1..(k - 1) : pieces[j].name # name
    ELSE 0

\* overlapping with the far end of the ship taken one cell too far.
overlappingOffByOne(ship, name, r, c) ==
  IF ship.name = name \/ Len(ship.position) = 0 THEN FALSE
  ELSE IF ship.horizontal
    THEN /\ r = ship.position[1]
         /\ c >= ship.position[2]
         /\ c <= ship.position[2] + ship.size
    ELSE /\ c = ship.position[2]
         /\ r >= ship.position[1]
         /\ r <= ship.position[1] + ship.size

\* overlapping with the first cell of a vertical ship left out.
overlappingSkipsOrigin(ship, name, r, c) ==
  IF ship.name = name \/ Len(ship.position) = 0 THEN FALSE
  ELSE IF ship.horizontal
    THEN /\ r = ship.position[1]
         /\ c >= ship.position[2]
         /\ c < ship.position[2] + ship.size
    ELSE /\ c = ship.position[2]
         /\ r > ship.position[1]
         /\ r < ship.position[1] + ship.size

\* The some() callback of canPlaceShipAt: does `ship` cover cell (r, c),
\* ships called `name` and unplaced ships never do.
overlapping(ship, name, r, c) ==
  IF ship.name = name \/ Len(ship.position) = 0 THEN FALSE
  ELSE IF ship.horizontal
    THEN /\ r = ship.position[1]
         /\ c >= ship.position[2]
         /\ c < ship.position[2] + ship.size
    ELSE /\ c = ship.position[2]
         /\ r >= ship.position[1]
         /\ r < ship.position[1] + ship.size

canPlaceShipAt(pieces, name, size, startRow, startCol, horizontal) ==
  IF startRow < 0 \/ startRow >= 10 \/ startCol < 0 \/ startCol >= 10 THEN FALSE
  ELSE IF horizontal /\ startCol + size > 10 THEN FALSE
  ELSE IF ~horizontal /\ startRow + size > 10 THEN FALSE
  ELSE \A i \in 0..(size - 1) :
         LET r == startRow + (IF horizontal THEN 0 ELSE i)
             c == startCol + (IF horizontal THEN i ELSE 0)
         IN ~ \E k \in 1..Len(pieces) : overlapping(pieces[k], name, r, c)

\* setPosition with the coordinates stored in the wrong order.
setPositionSwapped(pieces, name, row, col) ==
  [k \in 1..Len(pieces) |->
     IF pieces[k].name = name
       THEN [pieces[k] EXCEPT !.position = <<col, row>>]
       ELSE pieces[k]]

\* prev.map((s) => (s.name === name ? { ...s, position: [row, col] } : s))
setPosition(pieces, name, row, col) ==
  [k \in 1..Len(pieces) |->
     IF pieces[k].name = name
       THEN [pieces[k] EXCEPT !.position = <<row, col>>]
       ELSE pieces[k]]

\* placeShip writing the position before looking at the validator's answer.
placeShipUnchecked(pieces, name, size, startRow, startCol, horizontal) ==
  [ret |-> canPlaceShipAt(pieces, name, size, startRow, startCol, horizontal),
   pieces |-> [k \in 1..Len(pieces) |->
                 IF pieces[k].name = name
                   THEN [pieces[k] EXCEPT !.position = <<startRow, startCol>>]
                   ELSE pieces[k]]]

\* placeShip: the value returned and the fleet after the call.
placeShip(pieces, name, size, startRow, startCol, horizontal) ==
  IF ~canPlaceShipAt(pieces, name, size, startRow, startCol, horizontal)
    THEN [ret |-> FALSE, pieces |-> pieces]
    ELSE [ret |-> TRUE, pieces |-> setPosition(pieces, name, startRow, startCol)]

\* ---------------------------------------------------------- rotation search
\* A search state is <<row, col, offset>>: a candidate pivot cell and the
\* offset of that pivot from the start of the ship in the new orientation.
\* The visited set is keyed by the string `${r},${c},${o}`, which is distinct
\* for distinct integer triples, so it is kept as a set of triples.

\* Offset of the centre cell: Math.floor((ship.size - 1) / 2).
pivotOffset(ship) == (ship.size - 1) \div 2

\* The first seed: the centre cell of the ship as it lies now.
seedOne(ship) ==
  LET offset == pivotOffset(ship)
  IN << ship.position[1] + (IF ship.horizontal THEN 0 ELSE offset),
        ship.position[2] + (IF ship.horizontal THEN offset ELSE 0),
        offset >>

\* The second seed, pushed for ships of even size only.
seedTwo(ship) ==
  LET s == seedOne(ship)
  IN << s[1] + (IF ship.horizontal THEN 0 ELSE 1),
        s[2] + (IF ship.horizontal THEN 1 ELSE 0),
        s[3] + 1 >>

\* initialQueue with the second middle cell put in front of the first.
initialQueueSecondFirst(ship) ==
  IF ship.size % 2 = 0 THEN << seedTwo(ship), seedOne(ship) >>
                       ELSE << seedOne(ship) >>

\* const queue = [...]; if (ship.size % 2 === 0) queue.push(...)
initialQueue(ship) ==
  IF ship.size % 2 = 0 THEN << seedOne(ship), seedTwo(ship) >>
                       ELSE << seedOne(ship) >>

\* visited.add(`${pivotRow},${pivotCol},${offset}`): the first seed only.
initialVisited(ship) == { seedOne(ship) }

\* The origin a search state stands for: the pivot moved back by its offset
\* along the long axis of the new orientation.
candidateOrigin(ship, cur) ==
  << cur[1] - (IF ship.horizontal THEN cur[3] ELSE 0),
     cur[2] - (IF ship.horizontal THEN 0 ELSE cur[3]) >>

\* The neighbours array: up, down, left, right, the offset carried along.
neighbors(cur) ==
  << <<cur[1] - 1, cur[2], cur[3]>>,
     <<cur[1] + 1, cur[2], cur[3]>>,
     <<cur[1], cur[2] - 1, cur[3]>>,
     <<cur[1], cur[2] + 1, cur[3]>> >>

\* pushNeighbor putting the neighbour at the head of the queue: depth first.
pushNeighborFront(qv, n) ==
  IF n[1] >= 0 /\ n[1] < 10 /\ n[2] >= 0 /\ n[2] < 10 /\ n \notin qv.visited
    THEN [queue |-> <<n>> \o qv.queue, visited |-> qv.visited \cup {n}]
    ELSE qv

\* pushNeighbor with visited.add left out.
pushNeighborUnmarked(qv, n) ==
  IF n[1] >= 0 /\ n[1] < 10 /\ n[2] >= 0 /\ n[2] < 10 /\ n \notin qv.visited
    THEN [queue |-> Append(qv.queue, n), visited |-> qv.visited]
    ELSE qv

\* One turn of the for loop over the neighbours.
pushNeighbor(qv, n) ==
  IF n[1] >= 0 /\ n[1] < 10 /\ n[2] >= 0 /\ n[2] < 10 /\ n \notin qv.visited
    THEN [queue |-> Append(qv.queue, n), visited |-> qv.visited \cup {n}]
    ELSE qv

\* The whole for loop: the queue and the visited set after it.
expand(queue, visited, cur) ==
  LET ns == neighbors(cur)
      q0 == [queue |-> queue, visited |-> visited]
  IN pushNeighbor(pushNeighbor(pushNeighbor(pushNeighbor(q0, ns[1]), ns[2]), ns[3]), ns[4])

\* The while loop.  dequeued lists the search states shifted off the queue,
\* in order.  The result tells whether a pose was committed, the search
\* state that was committed, and the states dequeued on the way.
RECURSIVE search(_, _, _, _, _)
search(pieces, ship, queue, visited, dequeued) ==
  IF Len(queue) = 0
    THEN [found |-> FALSE, cand |-> <<>>, dequeued |-> dequeued]
    ELSE
      LET cur == Head(queue)
          org == candidateOrigin(ship, cur)
      IN IF canPlaceShipAt(pieces, ship.name, ship.size, org[1], org[2], ~ship.horizontal)
           THEN [found |-> TRUE, cand |-> cur, dequeued |-> Append(dequeued, cur)]
           ELSE LET qv == expand(Tail(queue), visited, cur)
                IN search(pieces, ship, qv.queue, qv.visited, Append(dequeued, cur))

\* setPose writing the position without flipping the orientation.
setPoseKeepsOrientation(pieces, name, topRow, leftCol) ==
  [k \in 1..Len(pieces) |->
     IF pieces[k].name = name
       THEN [pieces[k] EXCEPT !.position = <<topRow, leftCol>>]
       ELSE pieces[k]]

\* setPose mapping over defaultShips instead of the previous fleet.
setPoseFromDefaults(pieces, name, topRow, leftCol) ==
  [k \in 1..Len(pieces) |->
     IF pieces[k].name = name
       THEN [pieces[k] EXCEPT !.horizontal = ~pieces[k].horizontal,
                              !.position = <<topRow, leftCol>>]
       ELSE defaultShips[k]]

\* prev.map((s) => (s.name === ship.name
\*   ? { ...s, horizontal: !s.horizontal, position: [topRow, leftCol] } : s))
setPose(pieces, name, topRow, leftCol) ==
  [k \in 1..Len(pieces) |->
     IF pieces[k].name = name
       THEN [pieces[k] EXCEPT !.horizontal = ~pieces[k].horizontal,
                              !.position = <<topRow, leftCol>>]
       ELSE pieces[k]]

\* rotateShip past its first line: the search from the seeds and the commit
\* of the first legal candidate.
rotatePlaced(pieces, ship) ==
  LET res == search(pieces, ship, initialQueue(ship), initialVisited(ship), <<>>)
      org == candidateOrigin(ship, res.cand)
  IN [found |-> res.found, cand |-> res.cand, dequeued |-> res.dequeued,
      pieces |-> IF res.found THEN setPose(pieces, ship.name, org[1], org[2])
                              ELSE pieces]

\* rotateShip without its first line: an unplaced ship is flipped and given
\* an origin.
rotateShipUnguarded(pieces, ship) ==
  IF Len(ship.position) = 0
    THEN [found |-> TRUE, cand |-> <<>>, dequeued |-> <<>>,
          pieces |-> [k \in 1..Len(pieces) |->
                        IF pieces[k].name = ship.name
                          THEN [pieces[k] EXCEPT !.horizontal = ~pieces[k].horizontal,
                                                 !.position = <<0, 0>>]
                          ELSE pieces[k]]]
    ELSE rotatePlaced(pieces, ship)

\* rotateShip(ship): the fleet after the call, with the outcome of the search.
\* if (ship.position.length === 0) return;
rotateShip(pieces, ship) ==
  IF Len(ship.position) = 0
    THEN [found |-> FALSE, cand |-> <<>>, dequeued |-> <<>>, pieces |-> pieces]
    ELSE rotatePlaced(pieces, ship)

\* ---------------------------------------------------------------- handlers
\* The ships that are dragged.
Draggable == { k \in Indices : k <= MaxShips }

\* The data a ShipDraggable registers with the drag layer.
dragItem(ship) == [name |-> ship.name, size |-> ship.size, horizontal |-> ship.horizontal]

\* lastOp: op names the handler or function, name/row/col/horizontal are its
\* arguments (for a rotateShip call: the origin and orientation the ship had
\* before it), ret is placeShip's return value or whether rotateShip committed,
\* threw tells an uncaught TypeError, cand is the search state rotateShip
\* committed and tested the number of search states it took off the queue.
NoOp == [op |-> "init", name |-> NullName, row |-> -1, col |-> -1,
         horizontal |-> FALSE, ret |-> FALSE, threw |-> FALSE, cand |-> <<>>,
         tested |-> 0]

\* No call of snapToGrid yet.
NoSnap == [called |-> FALSE, hasRect |-> FALSE, nodeTop |-> 0, nodeLeft |-> 0,
           boardTop |-> 0, boardLeft |-> 0, x |-> 0, y |-> 0,
           outX |-> 0, outY |-> 0]

\* The relay before any connection: which of the two server files runs, the
\* sockets that are open, the Set clients, the frames sent to each socket and
\* the frame received last.
Servers == { "part_000", "server.ts" }
Sockets == 1..MaxSockets
NoFrame == [from |-> 0, text |-> ""]
NoRelay(server) == [server |-> server, open |-> {}, clients |-> {},
                    inbox |-> [s \in Sockets |-> <<>>], last |-> NoFrame,
                    frames |-> 0]

\* No rotateShip call under way.  phase tells where a call stands, ship is
\* the argument of the call, before the fleet the call began with, queue and
\* visited are the call's locals, tested counts the states shifted off the
\* queue, found and cand tell the pose committed.
NoLoop == [phase |-> "idle", ship |-> NullItem, before |-> <<>>,
           queue |-> <<>>, visited |-> {}, tested |-> 0,
           found |-> FALSE, cand |-> <<>>]

Init ==
  /\ shipPieces = defaultShips
  /\ activeDrag = NullItem
  /\ selectedShip = NullName
  /\ lastOp = NoOp
  /\ moves = 0
  /\ snap = NoSnap
  /\ relay = NoRelay("part_000")
  /\ loop = NoLoop

\* onDragStart: setActiveDrag(data.item).
onDragStart(k) ==
  /\ activeDrag = NullItem
  /\ activeDrag' = dragItem(shipPieces[k])
  /\ lastOp' = [NoOp EXCEPT !.op = "dragStart", !.name = shipPieces[k].name]
  /\ UNCHANGED <<shipPieces, selectedShip, moves, snap, relay, loop>>

\* The descriptors the drag layer may hand to onDragEnd as
\* event.active.data.current.item: the one registered when the drag started
\* (activeDrag) or the one registered by the latest render of the ship.
endItems ==
  { activeDrag, dragItem(shipPieces[find(shipPieces, activeDrag.name)]) }

\* onDragEnd over a board cell.
onDragEndOverCell(item, row, col) ==
  LET can == canPlaceShipAt(shipPieces, item.name, item.size, row, col, item.horizontal)
      res == placeShip(shipPieces, item.name, item.size, row, col, item.horizontal)
  IN /\ activeDrag' = NullItem
     /\ shipPieces' = IF can THEN res.pieces ELSE shipPieces
     /\ selectedShip' = item.name
     /\ lastOp' = [NoOp EXCEPT !.op = "dragEnd", !.name = item.name,
                               !.row = row, !.col = col,
                               !.horizontal = item.horizontal,
                               !.ret = can /\ res.ret]

DropOnCell ==
  /\ activeDrag # NullItem
  /\ moves < MaxMoves
  /\ moves' = moves + 1
  /\ \E item \in endItems, cell \in DropCells :
       onDragEndOverCell(item, cell[1], cell[2])
  /\ UNCHANGED <<snap, relay, loop>>

\* onDragEnd with event.over null: isCellData(overData) fails, early return.
DropOutside ==
  /\ activeDrag # NullItem
  /\ activeDrag' = NullItem
  /\ lastOp' = [NoOp EXCEPT !.op = "dragEndOutside", !.name = activeDrag.name]
  /\ UNCHANGED <<shipPieces, selectedShip, moves, snap, relay, loop>>

\* onDragCancel: setActiveDrag(null).
DragCancel ==
  /\ activeDrag # NullItem
  /\ activeDrag' = NullItem
  /\ lastOp' = [NoOp EXCEPT !.op = "dragCancel", !.name = activeDrag.name]
  /\ UNCHANGED <<shipPieces, selectedShip, moves, snap, relay, loop>>

DragStart == \E k \in Draggable : onDragStart(k)

\* Rotate button: rotateShip(shipPieces.find((s) => s.name === selectedShip)!).
\* With no ship of that name find yields undefined and rotateShip throws a
\* TypeError on ship.position before anything is written.
RotateClick ==
  LET k == find(shipPieces, selectedShip)
  IN /\ moves < MaxMoves
     /\ moves' = moves + 1
     /\ UNCHANGED <<snap, relay, loop>>
     /\ IF k = 0
       THEN /\ lastOp' = [NoOp EXCEPT !.op = "rotate", !.name = selectedShip,
                                      !.threw = TRUE]
            /\ UNCHANGED <<shipPieces, activeDrag, selectedShip>>
       ELSE LET res == rotateShip(shipPieces, shipPieces[k])
            IN /\ shipPieces' = res.pieces
               /\ lastOp' = [NoOp EXCEPT !.op = "rotate", !.name = selectedShip,
                                         !.ret = res.found, !.cand = res.cand,
                                         !.tested = Len(res.dequeued)]
               /\ UNCHANGED <<activeDrag, selectedShip, snap, relay, loop>>

Next == DragStart \/ DropOnCell \/ DropOutside \/ DragCancel \/ RotateClick

Spec == Init /\ [][Next]_vars

\* ------------------------------------------------------- the drag modifier
\* Math.floor(num / den) for den > 0.
mathFloor(num, den) == num \div den

\* Math.round(num / den) for den > 0: the nearest integer, a half rounds up.
mathRound(num, den) == (2 * num + den) \div (2 * den)

\* snapToGrid: hasRect tells that boardRef.current and draggingNodeRect are
\* both there; the result is the transform with x and y replaced.
snapToGrid(hasRect, nodeTop, nodeLeft, boardTop, boardLeft, x, y) ==
  IF ~hasRect THEN [x |-> x, y |-> y]
  ELSE LET nearestRow == mathRound(nodeTop - boardTop + y, gridSize)
           nearestCol == mathRound(nodeLeft - boardLeft + x, gridSize)
       IN IF nearestRow >= 0 /\ nearestRow < 10 /\ nearestCol >= 0 /\ nearestCol < 10
            THEN [x |-> nearestCol * gridSize - (nodeLeft - boardLeft),
                  y |-> nearestRow * gridSize - (nodeTop - boardTop)]
            ELSE [x |-> x, y |-> y]

\* Pixel coordinates of the dragged node's rectangle and of the board's, and
\* pointer deltas on both sides of the rounding and of the board's edges.
RectOrigins == { 8, 52 }
BoardOrigins == { 8 }
Deltas == { 0 - 31, 0 - 23, 0 - 22, 0, 21, 22, 43, 44, 395, 417, 418, 440 }

\* The drag layer calls the modifier with the current transform.
SnapToGrid ==
  /\ \E hasRect \in BOOLEAN, nodeTop \in RectOrigins, nodeLeft \in RectOrigins,
        boardTop \in BoardOrigins, boardLeft \in BoardOrigins,
        x \in Deltas, y \in Deltas :
       LET out == snapToGrid(hasRect, nodeTop, nodeLeft, boardTop, boardLeft, x, y)
       IN snap' = [called |-> TRUE, hasRect |-> hasRect,
                   nodeTop |-> nodeTop, nodeLeft |-> nodeLeft,
                   boardTop |-> boardTop, boardLeft |-> boardLeft,
                   x |-> x, y |-> y, outX |-> out.x, outY |-> out.y]
  /\ UNCHANGED <<shipPieces, activeDrag, selectedShip, lastOp, moves, relay, loop>>

SnapNext == SnapToGrid

SnapSpec == Init /\ [][SnapNext]_vars

\* ------------------------------------------------------------ the relay
\* The text frames clients send.
Texts == { "a", "b" }

\* The template literal `Echo: ${message}`.
echo(text) == "Echo: " \o text

\* wss.on('connection'): clients.add(ws); the socket has been sent nothing.
onConnection(ws) ==
  relay' = [relay EXCEPT !.open = @ \cup {ws}, !.clients = @ \cup {ws},
                         !.inbox[ws] = <<>>]

\* ws.on('message'): part_000 sends the echo to every socket of clients,
\* server.ts sends it to ws alone.
onMessage(ws, text) ==
  LET to == IF relay.server = "part_000" THEN relay.clients ELSE {ws}
  IN relay' = [relay EXCEPT
       !.inbox = [c \in Sockets |->
                    IF c \in to THEN Append(@[c], echo(text)) ELSE @[c]],
       !.last = [from |-> ws, text |-> text],
       !.frames = @ + 1]

\* ws.on('close'): clients.delete(ws).
onClose(ws) ==
  relay' = [relay EXCEPT !.open = @ \ {ws}, !.clients = @ \ {ws}]

gameVars == <<shipPieces, activeDrag, selectedShip, lastOp, moves, snap, loop>>

RelayInit ==
  /\ shipPieces = defaultShips
  /\ activeDrag = NullItem
  /\ selectedShip = NullName
  /\ lastOp = NoOp
  /\ moves = 0
  /\ snap = NoSnap
  /\ loop = NoLoop
  /\ relay \in { NoRelay(server) : server \in Servers }

RelayConnect ==
  /\ \E ws \in Sockets \ relay.open : onConnection(ws)
  /\ UNCHANGED gameVars

RelayMessage ==
  /\ relay.frames < MaxFrames
  /\ \E ws \in relay.open, text \in Texts : onMessage(ws, text)
  /\ UNCHANGED gameVars

RelayClose ==
  /\ \E ws \in relay.open : onClose(ws)
  /\ UNCHANGED gameVars

RelayNext == RelayConnect \/ RelayMessage \/ RelayClose

RelaySpec == RelayInit /\ [][RelayNext]_vars

\* ------------------------------------------------- the functions, called alone
\* placeShip and rotateShip as functions of the fleet: every call with a
\* dragged ship's name and size, a cell and either orientation.
callPlaceShip(k, row, col, horizontal) ==
  LET res == placeShip(shipPieces, shipPieces[k].name, shipPieces[k].size,
                       row, col, horizontal)
  IN /\ shipPieces' = res.pieces
     /\ lastOp' = [NoOp EXCEPT !.op = "placeShip", !.name = shipPieces[k].name,
                               !.row = row, !.col = col,
                               !.horizontal = horizontal, !.ret = res.ret]

\* The origin of a ship as lastOp records it, -1 for an unplaced ship.
rowBefore(ship) == IF Len(ship.position) = 0 THEN 0 - 1 ELSE ship.position[1]
colBefore(ship) == IF Len(ship.position) = 0 THEN 0 - 1 ELSE ship.position[2]

callRotateShip(k) ==
  LET res == rotateShip(shipPieces, shipPieces[k])
  IN /\ shipPieces' = res.pieces
     /\ lastOp' = [NoOp EXCEPT !.op = "rotateShip", !.name = shipPieces[k].name,
                               !.row = rowBefore(shipPieces[k]),
                               !.col = colBefore(shipPieces[k]),
                               !.horizontal = shipPieces[k].horizontal,
                               !.ret = res.found, !.cand = res.cand,
                               !.tested = Len(res.dequeued)]

CallPlaceShip ==
  /\ moves < MaxMoves
  /\ moves' = moves + 1
  /\ \E k \in Draggable, cell \in DropCells, horizontal \in BOOLEAN :
       callPlaceShip(k, cell[1], cell[2], horizontal)
  /\ UNCHANGED <<activeDrag, selectedShip, snap, relay, loop>>

CallRotateShip ==
  /\ moves < MaxMoves
  /\ moves' = moves + 1
  /\ \E k \in Draggable : callRotateShip(k)
  /\ UNCHANGED <<activeDrag, selectedShip, snap, relay, loop>>

CallNext == CallPlaceShip \/ CallRotateShip

\* The same calls on the last MaxShips ships of the fleet, the 2-cell
\* destroyer among them, placeShip being given the ship's stored orientation
\* as onDragEnd gives it when no rotation came during the drag.
SmallShips == { k \in Indices : k > Len(defaultShips) - MaxShips }

CallPlaceSmallShip ==
  /\ moves < MaxMoves
  /\ moves' = moves + 1
  /\ \E k \in SmallShips, cell \in DropCells :
       callPlaceShip(k, cell[1], cell[2], shipPieces[k].horizontal)
  /\ UNCHANGED <<activeDrag, selectedShip, snap, relay, loop>>

CallRotateSmallShip ==
  /\ moves < MaxMoves
  /\ moves' = moves + 1
  /\ \E k \in SmallShips : callRotateShip(k)
  /\ UNCHANGED <<activeDrag, selectedShip, snap, relay, loop>>

SmallCallNext == CallPlaceSmallShip \/ CallRotateSmallShip

\* The fleets those calls produce, with no record of the call kept: the
\* fleets the validator is asked about.
FleetPlace ==
  /\ moves < MaxMoves
  /\ moves' = moves + 1
  /\ \E k \in Draggable, cell \in DropCells, horizontal \in BOOLEAN :
       shipPieces' = placeShip(shipPieces, shipPieces[k].name, shipPieces[k].size,
                               cell[1], cell[2], horizontal).pieces
  /\ UNCHANGED <<activeDrag, selectedShip, lastOp, snap, relay, loop>>

FleetRotate ==
  /\ moves < MaxMoves
  /\ moves' = moves + 1
  /\ \E k \in Draggable : shipPieces' = rotateShip(shipPieces, shipPieces[k]).pieces
  /\ UNCHANGED <<activeDrag, selectedShip, lastOp, snap, relay, loop>>

FleetNext == FleetPlace \/ FleetRotate

FleetSpec == Init /\ [][FleetNext]_vars

CallSpec == Init /\ [][CallNext]_vars

SmallCallSpec == Init /\ [][SmallCallNext]_vars

\* ------------------------------------------- rotateShip, one turn at a time
\* rotateShip(ship) run turn by turn of its while loop, on fleets of the
\* ShipPiece shape that block the flipped orientation as well as on fleets of
\* the default ships.  The five default ships cover 17 cells, too few to
\* block every flipped pose of one of them, so the fleets on which the search
\* runs dry over the whole board hold longer pieces: walls of 10 cells.
shipAt(name, size, row, col, horizontal) ==
  [name |-> name, size |-> size, position |-> <<row, col>>, horizontal |-> horizontal]

rowWall(row) == shipAt("Row" \o ToString(row), SIZE, row, 0, TRUE)
colWall(col) == shipAt("Col" \o ToString(col), SIZE, 0, col, FALSE)

\* The calls: the fleet and the name of the ship handed to rotateShip.
SearchInputs ==
  { \* no vertical pose of 3 cells is free: rows 2, 5 and 8 are taken
    [pieces |-> << shipAt("Cruiser", 3, 0, 0, TRUE),
                   rowWall(2), rowWall(5), rowWall(8) >>, name |-> "Cruiser"],
    \* no vertical pose of 4 cells is free: rows 3 and 7 are taken
    [pieces |-> << shipAt("Battleship", 4, 0, 0, TRUE),
                   rowWall(3), rowWall(7) >>, name |-> "Battleship"],
    \* no horizontal pose of 4 cells is free: columns 3 and 7 are taken
    [pieces |-> << shipAt("Battleship", 4, 0, 0, FALSE),
                   colWall(3), colWall(7) >>, name |-> "Battleship"],
    \* no vertical pose of 2 cells is free: every odd row is taken
    [pieces |-> << shipAt("Destroyer", 2, 4, 4, TRUE),
                   rowWall(1), rowWall(3), rowWall(5), rowWall(7), rowWall(9) >>,
     name |-> "Destroyer"],
    \* rows 6 to 8 are free: a vertical pose exists far from the ship
    [pieces |-> << shipAt("Cruiser", 3, 0, 0, TRUE),
                   rowWall(2), rowWall(5), rowWall(9) >>, name |-> "Cruiser"],
    \* the default fleet, the carrier below the battleship
    [pieces |-> [defaultShips EXCEPT ![1].position = <<1, 0>>,
                                     ![2].position = <<0, 0>>],
     name |-> "Battleship"],
    \* the default fleet, the carrier stored vertical with its origin in row 9
    [pieces |-> [defaultShips EXCEPT ![1].position = <<9, 0>>,
                                     ![1].horizontal = FALSE],
     name |-> "Carrier"],
    \* the default fleet, nothing placed
    [pieces |-> defaultShips, name |-> "Submarine"] }

SearchInit ==
  /\ \E input \in SearchInputs :
       /\ shipPieces = input.pieces
       /\ loop = [NoLoop EXCEPT !.phase = "call",
                                !.ship = input.pieces[find(input.pieces, input.name)],
                                !.before = input.pieces]
  /\ activeDrag = NullItem
  /\ selectedShip = NullName
  /\ lastOp = NoOp
  /\ moves = 0
  /\ snap = NoSnap
  /\ relay = NoRelay("part_000")

\* if (ship.position.length === 0) return; then the queue with its seeds and
\* the visited set with the first seed.
RotateEnter ==
  /\ loop.phase = "call"
  /\ loop' = IF Len(loop.ship.position) = 0
               THEN [loop EXCEPT !.phase = "done"]
               ELSE [loop EXCEPT !.phase = "loop",
                                 !.queue = initialQueue(loop.ship),
                                 !.visited = initialVisited(loop.ship)]
  /\ UNCHANGED <<shipPieces, activeDrag, selectedShip, lastOp, moves, snap, relay>>

\* One turn of while (queue.length > 0): shift, test the origin, commit and
\* return, or push the neighbours.
RotateTurn ==
  /\ loop.phase = "loop"
  /\ Len(loop.queue) > 0
  /\ LET cur == Head(loop.queue)
         org == candidateOrigin(loop.ship, cur)
     IN IF canPlaceShipAt(shipPieces, loop.ship.name, loop.ship.size,
                          org[1], org[2], ~loop.ship.horizontal)
          THEN /\ shipPieces' = setPose(shipPieces, loop.ship.name, org[1], org[2])
               /\ loop' = [loop EXCEPT !.phase = "done",
                                       !.queue = Tail(loop.queue),
                                       !.tested = loop.tested + 1,
                                       !.found = TRUE, !.cand = cur]
          ELSE LET qv == expand(Tail(loop.queue), loop.visited, cur)
               IN /\ loop' = [loop EXCEPT !.queue = qv.queue,
                                          !.visited = qv.visited,
                                          !.tested = loop.tested + 1]
                  /\ UNCHANGED shipPieces
  /\ UNCHANGED <<activeDrag, selectedShip, lastOp, moves, snap, relay>>

\* The while loop left with the queue empty: rotateShip returns.
RotateLeave ==
  /\ loop.phase = "loop"
  /\ Len(loop.queue) = 0
  /\ loop' = [loop EXCEPT !.phase = "done"]
  /\ UNCHANGED <<shipPieces, activeDrag, selectedShip, lastOp, moves, snap, relay>>

SearchNext == RotateEnter \/ RotateTurn \/ RotateLeave

\* The call runs synchronously inside the click handler: a turn that can be
\* taken is taken.
SearchSpec == SearchInit /\ [][SearchNext]_vars /\ WF_vars(SearchNext)

\* ------------------------------------------------------------------ claims
placed(ship) == Len(ship.position) > 0

\* The cells a pose covers: size steps from the origin along the orientation.
poseCells(row, col, size, horizontal) ==
  { << row + (IF horizontal THEN 0 ELSE i), col + (IF horizontal THEN i ELSE 0) >> :
      i \in 0..(size - 1) }

\* The cells of a placed ship, from its stored origin and orientation.
shipCells(ship) ==
  poseCells(ship.position[1], ship.position[2], ship.size, ship.horizontal)

inBoard(cell) ==
  cell[1] >= 0 /\ cell[1] < SIZE /\ cell[2] >= 0 /\ cell[2] < SIZE

\* C1: in every reachable state every placed ship lies within rows 0..9 and
\* columns 0..9, and no cell is covered by two different placed ships.
FleetWithinBoardAndDisjoint ==
  /\ \A k \in Indices :
       placed(shipPieces[k]) => \A cell \in shipCells(shipPieces[k]) : inBoard(cell)
  /\ \A j, k \in Indices :
       (j # k /\ placed(shipPieces[j]) /\ placed(shipPieces[k]))
         => shipCells(shipPieces[j]) \cap shipCells(shipPieces[k]) = {}

\* Does a placed ship cover the cell, counting size steps from its origin.
covers(ship, cell) ==
  \E j \in 0..(ship.size - 1) :
    cell = << ship.position[1] + (IF ship.horizontal THEN 0 ELSE j),
              ship.position[2] + (IF ship.horizontal THEN j ELSE 0) >>

\* Reference predicate of C2: every cell of the pose is on the board and none
\* is a cell of a placed ship of another name.
canPlaceRef(pieces, name, size, row, col, horizontal) ==
  \A i \in 0..(size - 1) :
    LET cell == << row + (IF horizontal THEN 0 ELSE i),
                   col + (IF horizontal THEN i ELSE 0) >>
    IN /\ inBoard(cell)
       /\ \A k \in 1..Len(pieces) :
            (pieces[k].name # name /\ placed(pieces[k])) => ~covers(pieces[k], cell)

\* Origins asked of the validator: the board and a margin around it.
QueryCoords == (0 - 1)..SIZE

\* C2: for every ship, origin (also off the board) and orientation,
\* canPlaceShipAt answers as the reference predicate does.
CanPlaceMatchesReference ==
  \A k \in Indices, row \in QueryCoords, col \in QueryCoords, h \in BOOLEAN :
    canPlaceShipAt(shipPieces, shipPieces[k].name, shipPieces[k].size, row, col, h)
      = canPlaceRef(shipPieces, shipPieces[k].name, shipPieces[k].size, row, col, h)

\* C2 happens: with the carrier lying at (0,0)..(0,4) the battleship is
\* refused at (0,3), where it overlaps, accepted at (1,0), and refused at an
\* origin off the board.
CanPlaceOverlapAndBoundsSeen ==
  /\ shipPieces[1].position = <<0, 0>> /\ shipPieces[1].horizontal
  /\ ~placed(shipPieces[2])
  /\ ~canPlaceShipAt(shipPieces, "Battleship", 4, 0, 3, TRUE)
  /\ canPlaceShipAt(shipPieces, "Battleship", 4, 1, 0, TRUE)
  /\ ~canPlaceShipAt(shipPieces, "Battleship", 4, 0 - 1, 0, TRUE)
  /\ ~canPlaceShipAt(shipPieces, "Battleship", 4, 7, 0, FALSE)

\* The size the fleet holds for a ship name.
sizeOf(name) == defaultShips[find(defaultShips, name)].size

\* The validator's verdict, before the call, on the placement lastOp' records.
acceptedBefore ==
  canPlaceShipAt(shipPieces, lastOp'.name, sizeOf(lastOp'.name),
                 lastOp'.row, lastOp'.col, lastOp'.horizontal)

\* C3: a placeShip call whose placement canPlaceShipAt rejects returns false
\* and leaves every ship's position and orientation as they were.
RejectedPlaceShipLeavesFleet ==
  [][(lastOp'.op = "placeShip" /\ ~acceptedBefore)
       => (lastOp'.ret = FALSE /\ shipPieces' = shipPieces)]_vars

\* C3 happens: placeShip has just refused a placement of a ship while another
\* ship lies on the board.
PlaceShipRejectedSeen ==
  /\ lastOp.op = "placeShip" /\ lastOp.ret = FALSE
  /\ \E k \in Indices : placed(shipPieces[k]) /\ shipPieces[k].name # lastOp.name

\* C4: a placeShip call whose placement canPlaceShipAt accepts returns true,
\* leaves the named ship at exactly (row, col) with its orientation and size
\* unchanged, and changes no other ship.
AcceptedPlaceShipMovesOnlyNamedShip ==
  [][(lastOp'.op = "placeShip" /\ acceptedBefore)
       => /\ lastOp'.ret = TRUE
          /\ \A k \in Indices :
               IF shipPieces[k].name = lastOp'.name
                 THEN shipPieces'[k] =
                        [shipPieces[k] EXCEPT !.position = <<lastOp'.row, lastOp'.col>>]
                 ELSE shipPieces'[k] = shipPieces[k]]_vars

\* C4 happens: placeShip has just moved a ship that was already placed, to a
\* cell whose row and column differ, while another ship lies on the board.
PlaceShipAcceptedSeen ==
  /\ lastOp.op = "placeShip" /\ lastOp.ret = TRUE
  /\ lastOp.row # lastOp.col
  /\ \E k \in Indices : placed(shipPieces[k]) /\ shipPieces[k].name # lastOp.name

\* A step of the Rotate button on a ship that is in the fleet.
rotateStepOn(k) ==
  /\ moves' # moves
  /\ lastOp'.op = "rotate"
  /\ k = find(shipPieces, selectedShip)
  /\ k # 0

\* Some pose of the flipped orientation is legal somewhere on the board, the
\* ship's own cells not counted.
flippedPoseExists(pieces, ship) ==
  \E r \in 0..(SIZE - 1), c \in 0..(SIZE - 1) :
    canPlaceShipAt(pieces, ship.name, ship.size, r, c, ~ship.horizontal)

\* C5: rotating a placed ship for which some flipped pose is legal ends with
\* the orientation flipped and the ship at an origin canPlaceShipAt accepts.
RotateFlipsWheneverAPoseExists ==
  [][\A k \in Indices :
       (rotateStepOn(k) /\ placed(shipPieces[k])
          /\ flippedPoseExists(shipPieces, shipPieces[k]))
         => /\ shipPieces'[k].horizontal = ~shipPieces[k].horizontal
            /\ placed(shipPieces'[k])
            /\ canPlaceShipAt(shipPieces, shipPieces[k].name, shipPieces[k].size,
                              shipPieces'[k].position[1], shipPieces'[k].position[2],
                              ~shipPieces[k].horizontal)]_vars

\* Grid steps between the cells of two search states.
manhattan(a, b) ==
  (IF a[1] >= b[1] THEN a[1] - b[1] ELSE b[1] - a[1])
    + (IF a[2] >= b[2] THEN a[2] - b[2] ELSE b[2] - a[2])

\* The seeds of the search for a ship: one, or two for an even size.
seedsOf(ship) == { initialQueue(ship)[i] : i \in 1..Len(initialQueue(ship)) }

\* C6: the search state rotateShip commits is as near to its seed as any
\* search state whose origin is legal is to the seed of the same offset.
RotateCommitsNearestCandidate ==
  [][\A k \in Indices :
       (rotateStepOn(k) /\ lastOp'.ret)
         => \E own \in seedsOf(shipPieces[k]) :
              /\ own[3] = lastOp'.cand[3]
              /\ \A seed \in seedsOf(shipPieces[k]), r \in QueryCoords, c \in QueryCoords :
                   LET other == <<r, c, seed[3]>>
                       org == candidateOrigin(shipPieces[k], other)
                   IN canPlaceShipAt(shipPieces, shipPieces[k].name, shipPieces[k].size,
                                     org[1], org[2], ~shipPieces[k].horizontal)
                        => manhattan(other, seed) >= manhattan(lastOp'.cand, own)]_vars

\* C6 happens: a rotation was committed after more search states than the
\* seeds were tested, so away from the centre, with another ship on the board.
RotateRelaxedSeen ==
  /\ lastOp.op = "rotate" /\ lastOp.ret /\ lastOp.tested > 2
  /\ \E k \in Indices : placed(shipPieces[k]) /\ shipPieces[k].name # lastOp.name

\* C8: a rotate click while no ship is selected raises no error and leaves
\* the fleet and the selection unchanged.
RotateWithoutSelectionIsSilent ==
  [][(moves' # moves /\ lastOp'.op = "rotate" /\ selectedShip = NullName)
       => (~lastOp'.threw /\ shipPieces' = shipPieces /\ selectedShip' = selectedShip)]_vars

\* C9: rotating an unplaced ship leaves it unplaced with its orientation, and
\* changes no other ship.
RotateUnplacedIsNoOp ==
  [][\A k \in Indices :
       (rotateStepOn(k) /\ ~placed(shipPieces[k]))
         => (shipPieces' = shipPieces /\ ~lastOp'.threw /\ ~lastOp'.ret)]_vars

\* C9 happens: the Rotate button was clicked with an unplaced ship selected,
\* while another ship lies on the board.
RotateUnplacedSeen ==
  /\ lastOp.op = "rotate" /\ lastOp.name # NullName
  /\ ~placed(shipPieces[find(shipPieces, lastOp.name)])
  /\ \E k \in Indices : placed(shipPieces[k])

\* C10: after a drag-end, whatever rotations came between the drag-start and
\* it, the dragged ship with its stored orientation lies on the board and
\* apart from every other placed ship, or the drop committed nothing.
DropCommitsPoseValidAtCommit ==
  (lastOp.op = "dragEnd" /\ lastOp.ret)
    => LET k == find(shipPieces, lastOp.name)
       IN /\ \A cell \in shipCells(shipPieces[k]) : inBoard(cell)
          /\ \A j \in Indices :
               (j # k /\ placed(shipPieces[j]))
                 => shipCells(shipPieces[j]) \cap shipCells(shipPieces[k]) = {}

\* C11: in every reachable state canPlaceShipAt accepts every placed ship at
\* its own origin and orientation.
OwnPlacementAccepted ==
  \A k \in Indices :
    placed(shipPieces[k])
      => canPlaceShipAt(shipPieces, shipPieces[k].name, shipPieces[k].size,
                        shipPieces[k].position[1], shipPieces[k].position[2],
                        shipPieces[k].horizontal)

\* A pose whose cells all lie on the board.
poseInBoard(row, col, size, horizontal) ==
  /\ row >= 0 /\ col >= 0
  /\ IF horizontal THEN row < SIZE /\ col + size <= SIZE
                   ELSE col < SIZE /\ row + size <= SIZE

\* The cells of a pose and of a placed ship meet.
poseMeets(row, col, size, horizontal, ship) ==
  \E i \in 0..(size - 1) :
    covers(ship, IF horizontal THEN <<row, col + i>> ELSE <<row + i, col>>)

BoardCoords == 0..(SIZE - 1)

\* C12: with a ship B lying on the board, canPlaceShipAt rejects every
\* on-board pose of every other ship A that shares a cell with B, whichever
\* of the two is the placed one and whatever their two orientations.
OverlapRejectedBothWays ==
  \A k \in Indices :
    (placed(shipPieces[k]) /\ \A cell \in shipCells(shipPieces[k]) : inBoard(cell))
      => \A j \in Indices \ {k}, row \in BoardCoords, col \in BoardCoords,
            horizontal \in BOOLEAN :
           (/\ poseInBoard(row, col, shipPieces[j].size, horizontal)
            /\ poseMeets(row, col, shipPieces[j].size, horizontal, shipPieces[k]))
             => ~canPlaceShipAt(shipPieces, shipPieces[j].name, shipPieces[j].size,
                                row, col, horizontal)

\* C12 happens: the carrier and the battleship both lie on the board, one
\* horizontal and one vertical, so that each is the placed ship for poses of
\* the other in all four combinations of orientations.
OverlapBothOrientationsSeen ==
  /\ placed(shipPieces[1]) /\ placed(shipPieces[2])
  /\ shipPieces[1].horizontal # shipPieces[2].horizontal
  /\ \A k \in 1..2 : \A cell \in shipCells(shipPieces[k]) : inBoard(cell)
  /\ shipCells(shipPieces[1]) \cap shipCells(shipPieces[2]) = {}

\* C13: the selection changes only when a ship is placed: an accepted drop
\* sets it to the dropped ship's name; a rejected drop, a drag-end outside
\* the board, a drag cancel and a rotate click leave it unchanged.
SelectionChangesOnlyOnPlacement ==
  [][/\ (lastOp'.op = "dragEnd" /\ lastOp'.ret) => selectedShip' = lastOp'.name
     /\ ((lastOp'.op = "dragEnd" /\ ~lastOp'.ret)
           \/ lastOp'.op \in { "dragEndOutside", "dragCancel", "rotate" })
          => selectedShip' = selectedShip]_vars

\* C14: the fleet always consists of the five ships of defaultShips, with
\* their names and sizes in their order, and no step unplaces a placed ship.
FleetKeepsItsShips ==
  /\ [](/\ Len(shipPieces) = Len(defaultShips)
        /\ \A k \in Indices : /\ shipPieces[k].name = defaultShips[k].name
                              /\ shipPieces[k].size = defaultShips[k].size)
  /\ [][\A k \in Indices : placed(shipPieces[k]) => placed(shipPieces'[k])]_vars

\* C14 happens: a rotation has just been committed, after at least two
\* drops or rotations, while the carrier and the battleship both lie on the
\* board.
FleetKeptThroughDropsAndRotateSeen ==
  /\ lastOp.op = "rotate" /\ lastOp.ret /\ moves >= 3
  /\ placed(shipPieces[1]) /\ placed(shipPieces[2])

\* C15: whenever a connected client sends a frame, every socket that is open
\* at that moment, the sender's included, is sent "Echo: " followed by the
\* frame's text, whatever connections, frames and closes came before.
RelayEchoesToEveryOpenSocket ==
  [][relay'.frames # relay.frames
       => \A c \in relay.open :
            relay'.inbox[c] = Append(relay.inbox[c], "Echo: " \o relay'.last.text)]_vars

\* The integer nearest to num / 44, a half counted to the integer above.
nearestCell(num) ==
  CHOOSE n \in ((num \div 44) - 1)..((num \div 44) + 1) :
    88 * n - 44 <= 2 * num /\ 2 * num < 88 * n + 44

\* C16: with row = round((elementTop - boardTop + dy) / 44) and col likewise,
\* when both are in 0..9 the returned offset puts the element exactly on
\* (row * 44, col * 44) relative to the board; otherwise the offset (dx, dy)
\* is returned as it came.
SnapLandsOnCellOrKeepsOffset ==
  (snap.called /\ snap.hasRect)
    => LET row == nearestCell(snap.nodeTop - snap.boardTop + snap.y)
           col == nearestCell(snap.nodeLeft - snap.boardLeft + snap.x)
       IN IF row >= 0 /\ row < 10 /\ col >= 0 /\ col < 10
            THEN /\ snap.nodeTop - snap.boardTop + snap.outY = row * 44
                 /\ snap.nodeLeft - snap.boardLeft + snap.outX = col * 44
            ELSE snap.outX = snap.x /\ snap.outY = snap.y

\* C16 happens: the element was released half a cell below row 0, exactly
\* between two rows, and was snapped to row 1 and to a column to the right.
SnapOnHalfCellSeen ==
  /\ snap.called /\ snap.hasRect
  /\ snap.nodeTop - snap.boardTop + snap.y = 22
  /\ snap.nodeTop - snap.boardTop + snap.outY = 44
  /\ snap.nodeLeft - snap.boardLeft + snap.outX = 396
  /\ snap.outX # snap.x

\* C17: in one rotateShip call no search state (row, col, offset) is taken
\* off the queue twice, whatever the ship's size.
RotateTestsEachStateOnce ==
  [][\A k \in Indices :
       (rotateStepOn(k) /\ placed(shipPieces[k]))
         => LET dequeued == rotateShip(shipPieces, shipPieces[k]).dequeued
            IN \A i, j \in 1..Len(dequeued) : dequeued[i] = dequeued[j] => i = j]_vars

\* The pivot cell of C18: the ship's origin moved floor((size - 1) / 2) cells
\* along its long axis.
centrePivot(ship) ==
  LET offset == (ship.size - 1) \div 2
  IN IF ship.horizontal THEN << ship.position[1], ship.position[2] + offset >>
                        ELSE << ship.position[1] + offset, ship.position[2] >>

\* The origin of the flip about that pivot: the pivot moved back by the same
\* offset along the new long axis.
centreFlipOrigin(ship) ==
  LET offset == (ship.size - 1) \div 2
      pivot == centrePivot(ship)
  IN IF ship.horizontal THEN << pivot[1] - offset, pivot[2] >>
                        ELSE << pivot[1], pivot[2] - offset >>

\* C18: when canPlaceShipAt accepts the flip about the ship's own centre,
\* rotateShip commits exactly it: the ship ends flipped, at the origin of
\* that flip, and still covers the pivot cell.
RotateCommitsLegalCentreFlip ==
  [][\A k \in Indices :
       (/\ rotateStepOn(k) /\ placed(shipPieces[k])
        /\ canPlaceShipAt(shipPieces, shipPieces[k].name, shipPieces[k].size,
                          centreFlipOrigin(shipPieces[k])[1],
                          centreFlipOrigin(shipPieces[k])[2],
                          ~shipPieces[k].horizontal))
         => /\ shipPieces'[k].horizontal = ~shipPieces[k].horizontal
            /\ shipPieces'[k].position = centreFlipOrigin(shipPieces[k])
            /\ covers(shipPieces'[k], centrePivot(shipPieces[k]))]_vars

\* C18 happens: the battleship, of even size, has just been flipped about its
\* centre by a search that tested one state, with the carrier on the board.
CentreFlipCommittedSeen ==
  /\ lastOp.op = "rotate" /\ lastOp.ret /\ lastOp.tested = 1
  /\ lastOp.name = "Battleship"
  /\ placed(shipPieces[1])

\* No on-board pose of the flipped orientation is free of the other placed
\* ships of the fleet.
noFlippedPose(pieces, ship) ==
  \A row \in BoardCoords, col \in BoardCoords :
    poseInBoard(row, col, ship.size, ~ship.horizontal)
      => \E k \in 1..Len(pieces) :
           /\ pieces[k].name # ship.name
           /\ placed(pieces[k])
           /\ poseMeets(row, col, ship.size, ~ship.horizontal, pieces[k])

\* C7: a rotateShip call on a placed ship that has no legal flipped pose
\* anywhere on the board returns without a commit, the whole fleet as it was
\* when the call began, and no error raised.
RotateWithoutRoomIsNoOp ==
  (loop.phase = "done" /\ placed(loop.ship) /\ noFlippedPose(loop.before, loop.ship))
    => (~loop.found /\ shipPieces = loop.before /\ ~lastOp.threw)

\* C7 happens: a call on a placed ship with no legal flipped pose returned.
RotateWithoutRoomSeen ==
  /\ loop.phase = "done"
  /\ placed(loop.ship)
  /\ noFlippedPose(loop.before, loop.ship)
  /\ shipPieces = loop.before

\* The search states the loop can enqueue: the on-board cells, each with the
\* offset of a seed.
searchStates(ship) ==
  { <<r, c, seed[3]>> : r \in BoardCoords, c \in BoardCoords, seed \in seedsOf(ship) }

\* What is left of the search: the states not yet visited and those waiting
\* in the queue.
searchLeft(l) ==
  Cardinality(searchStates(l.ship) \ l.visited) + Len(l.queue)

\* C19: every rotateShip call returns.  Each state in the queue is a seed or
\* an on-board state with a seed's offset; every turn of the loop that does
\* not return takes one state off the queue and enqueues only states not
\* visited before, so the count of states unvisited or queued falls by one
\* each turn; the dequeues of a call never exceed 2 * 100 + 3; the call
\* reaches its end, and when it commits nothing the queue is empty and the
\* fleet is as it was.
RotateSearchTerminates ==
  /\ [][/\ loop'.phase = "loop"
           => \A i \in 1..Len(loop'.queue) :
                LET cur == loop'.queue[i]
                IN \/ cur \in seedsOf(loop'.ship)
                   \/ cur \in searchStates(loop'.ship)
        /\ (loop.phase = "loop" /\ loop'.phase = "loop")
           => searchLeft(loop') = searchLeft(loop) - 1
        /\ loop'.tested <= 2 * SIZE * SIZE + 3
        /\ (loop'.phase = "done" /\ ~loop'.found /\ placed(loop'.ship))
           => (loop'.queue = <<>> /\ shipPieces' = loop'.before)]_vars
  /\ <>(loop.phase = "done")

\* C19 happens: a call with no legal flipped pose took every state of the
\* board off its queue and returned with the queue empty.
RotateSearchDrainedSeen ==
  /\ loop.phase = "done"
  /\ ~loop.found
  /\ loop.queue = <<>>
  /\ loop.tested >= SIZE * SIZE
  /\ searchStates(loop.ship) \subseteq loop.visited

\* A rotateShip call on ship k, by the Rotate button or alone.
rotateCallOn(k) ==
  \/ rotateStepOn(k)
  \/ /\ moves' # moves
     /\ lastOp'.op = "rotateShip"
     /\ k = find(shipPieces, lastOp'.name)

\* C20: a rotateShip call either changes nothing or changes both the
\* orientation, which flips, and the origin of the rotated ship; its size and
\* every other ship stay as they were in both cases.
RotateChangesPoseOrNothing ==
  [][\A k \in Indices :
       rotateCallOn(k)
         => /\ \/ shipPieces'[k] = shipPieces[k]
               \/ /\ shipPieces'[k].horizontal = ~shipPieces[k].horizontal
                  /\ shipPieces'[k].position # shipPieces[k].position
            /\ shipPieces'[k].size = shipPieces[k].size
            /\ \A j \in Indices \ {k} : shipPieces'[j] = shipPieces[j]]_vars

\* C20 as the code has it: a rotateShip call either leaves the rotated ship
\* as it was or flips its orientation and writes the origin of the committed
\* pose in the same update, never one without the other; the origin written
\* may be the one the ship had; its name and size and every other ship stay
\* as they were in both cases.
RotateIsAtomicAndLocal ==
  [][\A k \in Indices :
       rotateCallOn(k)
         => /\ \/ shipPieces'[k] = shipPieces[k]
               \/ /\ lastOp'.ret /\ placed(shipPieces[k])
                  /\ shipPieces'[k].horizontal = ~shipPieces[k].horizontal
                  /\ shipPieces'[k].position
                       = candidateOrigin(shipPieces[k], lastOp'.cand)
            /\ lastOp'.ret => shipPieces'[k].horizontal # shipPieces[k].horizontal
            /\ shipPieces'[k].name = shipPieces[k].name
            /\ shipPieces'[k].size = shipPieces[k].size
            /\ \A j \in Indices \ {k} : shipPieces'[j] = shipPieces[j]]_vars

\* C20 happens: the destroyer has just been flipped about its first cell and
\* lies at the origin it had before, while the submarine lies on the board.
RotateKeptOriginSeen ==
  /\ lastOp.op = "rotateShip" /\ lastOp.ret /\ lastOp.name = "Destroyer"
  /\ shipPieces[5].position = <<lastOp.row, lastOp.col>>
  /\ shipPieces[5].horizontal # lastOp.horizontal
  /\ placed(shipPieces[4])

\* C21: when a rotateShip call has committed the flip about the ship's own
\* centre, the candidate of the first seed, a rotateShip call on the same ship
\* right after it puts the ship back at the origin and orientation it had
\* before the two calls.
RotateTwiceRestoresPose ==
  [][(/\ moves' # moves
      /\ lastOp'.op = "rotateShip" /\ lastOp.op = "rotateShip"
      /\ lastOp'.name = lastOp.name
      /\ lastOp.ret /\ lastOp.tested = 1)
       => LET k == find(shipPieces, lastOp.name)
          IN /\ shipPieces'[k].position = <<lastOp.row, lastOp.col>>
             /\ shipPieces'[k].horizontal = lastOp.horizontal]_vars

\* C22: with the five default ships every rotate of a placed ship commits a
\* pose and flips the ship's orientation; the search never empties its queue
\* without a commit.
RotateOfPlacedShipAlwaysFlips ==
  [][\A k \in Indices :
       (rotateStepOn(k) /\ placed(shipPieces[k]))
         => /\ lastOp'.ret
            /\ shipPieces'[k].horizontal = ~shipPieces[k].horizontal]_vars

====
